---- MODULE Spec2Model ----
(***************************************************************************)
(* Notebook output synchronizer (sync_outputs.py) and translation          *)
(* validator (validate_translation.py).                                    *)
(*                                                                         *)
(* A notebook is a JSON mapping; a Python dict is modelled as a TLA+       *)
(* function whose DOMAIN is the set of keys that are present, so           *)
(* `'k' in d`, d.get('k', default) and d['k'] = v are modelled by what     *)
(* they do.  A text is a sequence of characters, a cell's source a         *)
(* sequence of texts (''.join flattens it).                                *)
(***************************************************************************)
EXTENDS Integers, Sequences, FiniteSets, TLC

\* ------------------------------------------------------------ bounds
\* Longest cell list of a notebook in the per-pair specifications.
MaxCells == 2
\* Longest batch (number of notebooks the glob finds) in the batch specification.
MaxPairs == 2

\* ------------------------------------------------------------ python helpers
\* d.get(k, default)
Get(d, k, default) == IF k \in DOMAIN d THEN d[k] ELSE default

\* d[k] = v
SetKey(d, k, v) == [x \in (DOMAIN d) \cup {k} |-> IF x = k THEN v ELSE d[x]]

\* min(a, b)
Min(a, b) == IF a <= b THEN a ELSE b

\* ''.join(fragments)
RECURSIVE Join(_)
Join(frags) == IF frags = <<>> THEN <<>> ELSE Head(frags) \o Join(Tail(frags))

\* characters str.strip() removes
Whitespace == {" ", "\n", "\t"}

\* not s.strip()
IsBlank(s) == \A k \in 1..Len(s) : s[k] \in Whitespace

\* the indices of a sequence that satisfy a test, ascending (a list built by append in a for loop)
RECURSIVE Ascending(_)
Ascending(S) ==
  IF S = {} THEN <<>>
  ELSE LET m == CHOOSE x \in S : \A y \in S : x <= y
       IN <<m>> \o Ascending(S \ {m})

\* ------------------------------------------------------------ sync_outputs.py
\* The loop body without the test of line 32: it copies whatever the kinds are.
SyncCellNoKindTest(orig_cell, trans_cell) ==
  LET withOutputs ==
        IF "outputs" \in DOMAIN orig_cell /\ Len(orig_cell["outputs"]) > 0
        THEN SetKey(trans_cell, "outputs", orig_cell["outputs"])
        ELSE trans_cell
  IN IF "execution_count" \in DOMAIN orig_cell
     THEN SetKey(withOutputs, "execution_count", orig_cell["execution_count"])
     ELSE withOutputs

\* The loop body without the length test of line 33: an empty outputs list
\* of the original overwrites the translated cell's outputs.
SyncCellClearing(orig_cell, trans_cell) ==
  IF Get(orig_cell, "cell_type", "None") = "code" /\ Get(trans_cell, "cell_type", "None") = "code"
  THEN LET withOutputs ==
             IF "outputs" \in DOMAIN orig_cell
             THEN SetKey(trans_cell, "outputs", orig_cell["outputs"])
             ELSE trans_cell
       IN IF "execution_count" \in DOMAIN orig_cell
          THEN SetKey(withOutputs, "execution_count", orig_cell["execution_count"])
          ELSE withOutputs
  ELSE trans_cell

\* Lines 32-39: the body of the loop for one aligned pair of cells; the
\* translated cell after it.
SyncCell(orig_cell, trans_cell) ==
  IF Get(orig_cell, "cell_type", "None") = "code" /\ Get(trans_cell, "cell_type", "None") = "code"
  THEN LET withOutputs ==
             IF "outputs" \in DOMAIN orig_cell /\ Len(orig_cell["outputs"]) > 0
             THEN SetKey(trans_cell, "outputs", orig_cell["outputs"])
             ELSE trans_cell
       IN IF "execution_count" \in DOMAIN orig_cell
          THEN SetKey(withOutputs, "execution_count", orig_cell["execution_count"])
          ELSE withOutputs
  ELSE trans_cell

\* The count with the increment of line 35 moved out of the if of line 33:
\* an execution_count copy counts too.
CopiesOutputsCountingExec(orig_cell, trans_cell) ==
  /\ Get(orig_cell, "cell_type", "None") = "code"
  /\ Get(trans_cell, "cell_type", "None") = "code"
  /\ \/ "outputs" \in DOMAIN orig_cell /\ Len(orig_cell["outputs"]) > 0
     \/ "execution_count" \in DOMAIN orig_cell

\* Lines 32-35: whether the loop body adds one to outputs_copied.
CopiesOutputs(orig_cell, trans_cell) ==
  /\ Get(orig_cell, "cell_type", "None") = "code"
  /\ Get(trans_cell, "cell_type", "None") = "code"
  /\ "outputs" \in DOMAIN orig_cell
  /\ Len(orig_cell["outputs"]) > 0

\* Lines 17-23: min_cells.
MinCells(original_nb, translated_nb) ==
  IF Len(original_nb["cells"]) # Len(translated_nb["cells"])
  THEN Min(Len(original_nb["cells"]), Len(translated_nb["cells"]))
  ELSE Len(original_nb["cells"])

\* Lines 26-39: the loop over range(min_cells); the translated notebook after it.
SyncedNotebook(original_nb, translated_nb) ==
  LET min_cells == MinCells(original_nb, translated_nb)
  IN [translated_nb EXCEPT !["cells"] =
        [i \in 1..Len(translated_nb["cells"]) |->
           IF i <= min_cells
           THEN SyncCell(original_nb["cells"][i], translated_nb["cells"][i])
           ELSE translated_nb["cells"][i]]]

\* Lines 26-39: outputs_copied after the loop, counted one index at a time.
RECURSIVE OutputsCopiedUpTo(_, _, _)
OutputsCopiedUpTo(original_nb, translated_nb, n) ==
  IF n = 0 THEN 0
  ELSE OutputsCopiedUpTo(original_nb, translated_nb, n - 1)
       + (IF CopiesOutputs(original_nb["cells"][n], translated_nb["cells"][n]) THEN 1 ELSE 0)

\* Lines 11-18: json.load of either file raises on text that is not JSON, and
\* ['cells'] raises KeyError on a notebook without the key.
SyncRaises(original_file, translated_file) ==
  \/ original_file.state # "json"
  \/ translated_file.state # "json"
  \/ "cells" \notin DOMAIN original_file.nb
  \/ "cells" \notin DOMAIN translated_file.nb

\* ------------------------------------------------------------ validate_translation.py
\* One entry of NotebookValidator.issues: the check that appended it, its
\* marker ("error" for the cross, "warning" for the warning sign,
\* "exception" for the line run_all_validations appends), the numbers and the
\* texts the message carries.
Issue(check, level, nums, text) ==
  [check |-> check, level |-> level, nums |-> nums, text |-> text]

\* What one call of a check does: whether it raised, the value it returned
\* (Python's True, False or None) and the issues it appended.
Raised(exc) == [raised |-> TRUE, exc |-> exc, ret |-> "None", issues |-> <<>>]
Returned(ret, issues) == [raised |-> FALSE, exc |-> "", ret |-> ret, issues |-> issues]

\* self.original['cells'] or self.translated['cells'] raises KeyError
NoCells(original, translated) ==
  "cells" \notin DOMAIN original \/ "cells" \notin DOMAIN translated

\* zip(self.original['cells'], self.translated['cells']) stops at the shorter list
Zipped(original, translated) ==
  1..Min(Len(original["cells"]), Len(translated["cells"]))

\* Lines 17-27.  Indices in messages are Python's (from 0).
validate_cell_count(original, translated) ==
  IF NoCells(original, translated) THEN Raised("KeyError")
  ELSE LET orig_count  == Len(original["cells"])
           trans_count == Len(translated["cells"])
       IN IF orig_count # trans_count
          THEN Returned("False", <<Issue("Cell count", "error", <<orig_count, trans_count>>, <<>>)>>)
          ELSE Returned("True", <<>>)

\* Lines 29-42.  text holds, per mismatch, the original's kind and the translated one's.
validate_cell_types(original, translated) ==
  IF NoCells(original, translated) THEN Raised("KeyError")
  ELSE LET mismatches == Ascending({i \in Zipped(original, translated) :
                            Get(original["cells"][i], "cell_type", "None")
                              # Get(translated["cells"][i], "cell_type", "None")})
       IN IF mismatches # <<>>
          THEN Returned("False",
                 <<Issue("Cell types", "error",
                         [k \in 1..Len(mismatches) |-> mismatches[k] - 1],
                         [k \in 1..(2 * Len(mismatches)) |->
                            IF k % 2 = 1
                            THEN Get(original["cells"][mismatches[(k + 1) \div 2]], "cell_type", "None")
                            ELSE Get(translated["cells"][mismatches[k \div 2]], "cell_type", "None")])>>)
          ELSE Returned("True", <<>>)

\* Lines 44-64.  The excerpt lines 57-59 add to the message are not modelled.
validate_code_cells(original, translated) ==
  IF NoCells(original, translated) THEN Raised("KeyError")
  ELSE LET mismatches == Ascending({i \in Zipped(original, translated) :
                            /\ Get(original["cells"][i], "cell_type", "None") = "code"
                            /\ Join(Get(original["cells"][i], "source", <<>>))
                                 # Join(Get(translated["cells"][i], "source", <<>>))})
       IN IF mismatches # <<>>
          THEN Returned("False",
                 <<Issue("Code cells", "error",
                         [k \in 1..Len(mismatches) |-> mismatches[k] - 1], <<>>)>>)
          ELSE Returned("True", <<>>)

\* Lines 66-90.  total_markdown counts every position whose original cell is
\* markdown (line 75, before the blank test of line 80); identical_count only
\* the ones that are not blank and equal.
validate_markdown_translated(original, translated) ==
  IF NoCells(original, translated) THEN Raised("KeyError")
  ELSE LET markdown == {i \in Zipped(original, translated) :
                          Get(original["cells"][i], "cell_type", "None") = "markdown"}
           total_markdown  == Cardinality(markdown)
           identical_count == Cardinality({i \in markdown :
                                /\ ~IsBlank(Join(Get(original["cells"][i], "source", <<>>)))
                                /\ Join(Get(original["cells"][i], "source", <<>>))
                                     = Join(Get(translated["cells"][i], "source", <<>>))})
       IN IF total_markdown > 0 /\ identical_count = total_markdown
          THEN Returned("False",
                 <<Issue("Markdown translation", "warning", <<total_markdown>>, <<>>)>>)
          ELSE Returned("True", <<>>)

\* Lines 92-108.  nums holds, per missing cell, its index and the original's
\* number of outputs.
validate_outputs_present(original, translated) ==
  IF NoCells(original, translated) THEN Raised("KeyError")
  ELSE LET missing_outputs == Ascending({i \in Zipped(original, translated) :
                                /\ Get(original["cells"][i], "cell_type", "None") = "code"
                                /\ Len(Get(original["cells"][i], "outputs", <<>>)) > 0
                                /\ Len(Get(translated["cells"][i], "outputs", <<>>)) = 0})
       IN IF missing_outputs # <<>>
          THEN Returned("False",
                 <<Issue("Outputs present", "warning",
                         [k \in 1..(2 * Len(missing_outputs)) |->
                            IF k % 2 = 1 THEN missing_outputs[(k + 1) \div 2] - 1
                            ELSE Len(original["cells"][missing_outputs[k \div 2]]["outputs"])],
                         <<>>)>>)
          ELSE Returned("True", <<>>)

\* A notebook's metadata value: a mapping (type "dict", with the kernelspec
\* mapping it holds, itself with or without a "name") or something that is not
\* a mapping and has no .get (type "list").
EmptyDict == [x \in {} |-> ""]
DictMetadata(kernelspec) == [type |-> "dict", kernelspec |-> kernelspec]
ListMetadata == [type |-> "list", kernelspec |-> EmptyDict]

\* nb.get('metadata', {}).get('kernelspec', {}).get('name'), "None" for None
KernelName(nb) == Get(Get(nb, "metadata", DictMetadata(EmptyDict)).kernelspec, "name", "None")

\* truthiness of a kernel name: None and '' are falsy
Truthy(name) == name # "None" /\ name # ""

\* Lines 110-117.  The function has no return statement: it returns None.
validate_metadata(original, translated) ==
  IF \/ Get(original, "metadata", DictMetadata(EmptyDict)).type # "dict"
     \/ Get(translated, "metadata", DictMetadata(EmptyDict)).type # "dict"
  THEN Raised("AttributeError")
  ELSE LET orig_kernel  == KernelName(original)
           trans_kernel == KernelName(translated)
       IN IF Truthy(orig_kernel) /\ Truthy(trans_kernel) /\ orig_kernel # trans_kernel
          THEN Returned("None", <<Issue("Metadata", "warning", <<>>, <<orig_kernel, trans_kernel>>)>>)
          ELSE Returned("None", <<>>)

\* Lines 121-128: the list of validations, in order.
CheckNames == <<"Cell count", "Cell types", "Code cells",
                "Markdown translation", "Outputs present", "Metadata">>

\* validation_func() for the k-th entry of the list
CallCheck(k, original, translated) ==
  CASE k = 1 -> validate_cell_count(original, translated)
    [] k = 2 -> validate_cell_types(original, translated)
    [] k = 3 -> validate_code_cells(original, translated)
    [] k = 4 -> validate_markdown_translated(original, translated)
    [] k = 5 -> validate_outputs_present(original, translated)
    [] k = 6 -> validate_metadata(original, translated)

\* all(results.values()): True is the only truthy value a check returns
AllPassed(res) == \A n \in DOMAIN res : res[n] = "True"

\* ------------------------------------------------------------ files
\* A file of notebooks/ or translated/: absent, text json.load rejects, or a notebook.
MissingFile == [state |-> "missing", nb |-> EmptyDict]
GarbledFile == [state |-> "garbled", nb |-> EmptyDict]
JsonFile(nb) == [state |-> "json", nb |-> nb]

\* sync_outputs.py lines 5-46, the whole call: whether it raised, the
\* notebook it wrote to translated_path, the count it returned and whether it
\* printed the cell-count warning.
sync_notebook_outputs(original_file, translated_file) ==
  IF SyncRaises(original_file, translated_file)
  THEN [raised |-> TRUE, written |-> translated_file, outputs_copied |-> 0, warned |-> FALSE]
  ELSE LET original_nb   == original_file.nb
           translated_nb == translated_file.nb
       IN [raised |-> FALSE,
           written |-> JsonFile(SyncedNotebook(original_nb, translated_nb)),
           outputs_copied |-> OutputsCopiedUpTo(original_nb, translated_nb,
                                                MinCells(original_nb, translated_nb)),
           warned |-> Len(original_nb["cells"]) # Len(translated_nb["cells"])]

\* ------------------------------------------------------------ state
VARIABLES
  dir,        \* the notebooks the glob finds, in order: [original, translated] files
  dir0,       \* dir as it was before either script ran
  smain,      \* sync_outputs.main: pc, loop index, counters, console lines
  vmain,      \* validate_translation.main: pc, loop index, counters, console lines
  validator,  \* the NotebookValidator of the pair being validated: original, translated
  k,          \* run_all_validations: the index in validations of the next check
  results,    \* run_all_validations: results
  issues      \* NotebookValidator.issues

vars == <<dir, dir0, smain, vmain, validator, k, results, issues>>

NoValidator == [original |-> EmptyDict, translated |-> EmptyDict]

IdleSync == [pc |-> "idle", i |-> 1, total_outputs |-> 0, files_processed |-> 0, console |-> <<>>]
IdleValidate == [pc |-> "idle", i |-> 1, total_files |-> 0, files_with_issues |-> 0, console |-> <<>>]

\* One console line of either main: the pair it is about (0 for the summary),
\* what it says and the number it carries.
Line(pair, what, n) == [pair |-> pair, what |-> what, n |-> n]

InitOn(d) ==
  /\ dir = d
  /\ dir0 = d
  /\ smain = IdleSync
  /\ vmain = IdleValidate
  /\ validator = NoValidator
  /\ k = 0
  /\ results = EmptyDict
  /\ issues = <<>>

\* ------------------------------------------------------------ sync_outputs.main
\* One script runs at a time.
NoScriptRunning ==
  /\ smain.pc \in {"idle", "done"}
  /\ vmain.pc \in {"idle", "done", "crashed"}

\* Lines 48-56.
SyncMainStart ==
  /\ smain.pc = "idle"
  /\ NoScriptRunning
  /\ smain' = [smain EXCEPT !.pc = "loop"]
  /\ UNCHANGED <<dir, dir0, vmain, validator, k, results, issues>>

\* Lines 59-71: one iteration of the loop.
SyncMainPair ==
  /\ smain.pc = "loop"
  /\ smain.i <= Len(dir)
  /\ LET i == smain.i
         original_path   == dir[i].original
         translated_path == dir[i].translated
     IN IF translated_path.state = "missing"
        THEN /\ smain' = [smain EXCEPT !.i = i + 1,
                                       !.console = Append(@, Line(i, "skip", 0))]
             /\ dir' = dir
        ELSE LET call == sync_notebook_outputs(original_path, translated_path)
             IN IF call.raised
                THEN /\ smain' = [smain EXCEPT !.i = i + 1,
                                               !.console = Append(@, Line(i, "error", 0))]
                     /\ dir' = dir
                ELSE /\ smain' = [smain EXCEPT
                                    !.i = i + 1,
                                    !.total_outputs = @ + call.outputs_copied,
                                    !.files_processed = @ + 1,
                                    !.console = (IF call.warned
                                                 THEN Append(@, Line(i, "warning", 0))
                                                 ELSE @)
                                                \o <<Line(i, "synchronized", call.outputs_copied)>>]
                     /\ dir' = [dir EXCEPT ![i].translated = call.written]
  /\ UNCHANGED <<dir0, vmain, validator, k, results, issues>>

\* Lines 73-75.
SyncMainSummary ==
  /\ smain.pc = "loop"
  /\ smain.i > Len(dir)
  /\ smain' = [smain EXCEPT !.pc = "done",
                            !.console = Append(@, Line(0, "summary", smain.total_outputs))]
  /\ UNCHANGED <<dir, dir0, vmain, validator, k, results, issues>>

\* ------------------------------------------------------------ validate_translation.main
\* Lines 140-153.
ValidateMainStart ==
  /\ vmain.pc = "idle"
  /\ NoScriptRunning
  /\ vmain' = [vmain EXCEPT !.pc = "loop"]
  /\ UNCHANGED <<dir, dir0, smain, validator, k, results, issues>>

\* Lines 159-161: the translated file is not there.
ValidateMainSkip ==
  /\ vmain.pc = "loop"
  /\ vmain.i <= Len(dir)
  /\ dir[vmain.i].translated.state = "missing"
  /\ vmain' = [vmain EXCEPT !.i = @ + 1,
                            !.console = Append(@, Line(vmain.i, "skip", 0))]
  /\ UNCHANGED <<dir, dir0, smain, validator, k, results, issues>>

\* Lines 163-164 and 6-15: total_files += 1, then NotebookValidator(...)
\* loads both files.  No try statement encloses the call: what json.load
\* raises leaves main.
ValidateMainLoad ==
  /\ vmain.pc = "loop"
  /\ vmain.i <= Len(dir)
  /\ dir[vmain.i].translated.state # "missing"
  /\ UNCHANGED <<dir, dir0, smain>>
  /\ IF dir[vmain.i].original.state # "json" \/ dir[vmain.i].translated.state # "json"
     THEN /\ vmain' = [vmain EXCEPT !.pc = "crashed", !.total_files = @ + 1]
          /\ UNCHANGED <<validator, k, results, issues>>
     ELSE /\ vmain' = [vmain EXCEPT !.pc = "checks", !.total_files = @ + 1]
          /\ validator' = [original |-> dir[vmain.i].original.nb,
                           translated |-> dir[vmain.i].translated.nb]
          /\ k' = 1
          /\ results' = EmptyDict
          /\ issues' = <<>>

\* The iteration without the try statement of lines 132-136: what the check
\* raises leaves run_all_validations and main.
RunCheckNoTry ==
  /\ vmain.pc = "checks"
  /\ k \in 1..Len(CheckNames)
  /\ LET name == CheckNames[k]
         call == CallCheck(k, validator.original, validator.translated)
     IN IF call.raised
        THEN /\ vmain' = [vmain EXCEPT !.pc = "crashed"]
             /\ UNCHANGED <<results, issues, k>>
        ELSE /\ results' = SetKey(results, name, call.ret)
             /\ issues' = issues \o call.issues
             /\ k' = k + 1
             /\ UNCHANGED vmain
  /\ UNCHANGED <<dir, dir0, smain, validator>>

\* Lines 131-136: one iteration of the loop of run_all_validations, the try
\* statement included.
RunCheck ==
  /\ vmain.pc = "checks"
  /\ k \in 1..Len(CheckNames)
  /\ LET name == CheckNames[k]
         call == CallCheck(k, validator.original, validator.translated)
     IN IF call.raised
        THEN /\ results' = SetKey(results, name, "False")
             /\ issues' = Append(issues, Issue(name, "exception", <<>>, <<call.exc>>))
        ELSE /\ results' = SetKey(results, name, call.ret)
             /\ issues' = issues \o call.issues
  /\ k' = k + 1
  /\ UNCHANGED <<dir, dir0, smain, vmain, validator>>

\* Lines 165-188: run_all_validations has returned; the status line, the
\* issue lines and the failed-checks line of this file.
ValidateMainReport ==
  /\ vmain.pc = "checks"
  /\ k = Len(CheckNames) + 1
  /\ LET all_passed == AllPassed(results)
         status == IF all_passed /\ issues = <<>> THEN "PASS" ELSE "ISSUES"
         failed_checks == {n \in DOMAIN results : results[n] # "True"}
     IN vmain' = [vmain EXCEPT
                    !.pc = "loop",
                    !.i = @ + 1,
                    !.files_with_issues = IF issues # <<>> THEN @ + 1 ELSE @,
                    !.console = @ \o <<Line(vmain.i, status, Len(issues))>>
                                  \o (IF failed_checks # {} /\ issues = <<>>
                                      THEN <<Line(vmain.i, "failed checks", Cardinality(failed_checks))>>
                                      ELSE <<>>)]
  /\ UNCHANGED <<dir, dir0, smain, validator, k, results, issues>>

\* Lines 190-203.
ValidateMainSummary ==
  /\ vmain.pc = "loop"
  /\ vmain.i > Len(dir)
  /\ vmain' = [vmain EXCEPT !.pc = "done",
                            !.console = Append(@, Line(0, "summary", vmain.files_with_issues))]
  /\ UNCHANGED <<dir, dir0, smain, validator, k, results, issues>>

Next ==
  \/ SyncMainStart
  \/ SyncMainPair
  \/ SyncMainSummary
  \/ ValidateMainStart
  \/ ValidateMainSkip
  \/ ValidateMainLoad
  \/ RunCheck
  \/ ValidateMainReport
  \/ ValidateMainSummary

\* ------------------------------------------------------------ inputs
\* The sequences over S of length 0..n.
SeqsUpTo(S, n) == UNION {[1..m -> S] : m \in 0..n}

Cell(cell_type, source) == [cell_type |-> cell_type, source |-> source]
WithOutputs(cell, outputs) == SetKey(cell, "outputs", outputs)
WithCount(cell, execution_count) == SetKey(cell, "execution_count", execution_count)

\* the texts of the cells: a text is a sequence of characters
X == <<"x">>
Y == <<"y">>
XY == <<"x", "y">>
A == <<"a">>
B == <<"b">>
Blank == <<" ">>

Notebook(cells, metadata) == [cells |-> cells, metadata |-> metadata]
Python3 == DictMetadata([name |-> "python3"])
IR == DictMetadata([name |-> "ir"])

\* Cells of an original notebook for the synchronizer: code cells with one
\* or two outputs, with an empty outputs list and with no outputs key, with
\* and without an execution_count (0 among the values), and a markdown cell.
SyncOriginalCells ==
  { WithCount(WithOutputs(Cell("code", <<X>>), <<"o1">>), 1),
    WithOutputs(Cell("code", <<X>>), <<"o1", "o2">>),
    WithCount(WithOutputs(Cell("code", <<X>>), <<>>), 0),
    Cell("code", <<X>>),
    WithCount(Cell("code", <<X>>), 3),
    Cell("markdown", <<A>>) }

\* Cells of a translated notebook for the synchronizer: code cells holding
\* outputs of their own, an empty list or no key, a markdown cell and a raw
\* cell that carries outputs.
SyncTranslatedCells ==
  { WithCount(WithOutputs(Cell("code", <<X>>), <<"p">>), 2),
    WithOutputs(Cell("code", <<X>>), <<>>),
    Cell("code", <<X>>),
    Cell("markdown", <<B>>),
    WithOutputs(Cell("raw", <<X>>), <<"p">>) }

\* one pair of notebooks, or one original whose translated file is missing
InitSync ==
  \/ \E o \in SeqsUpTo(SyncOriginalCells, MaxCells), t \in SeqsUpTo(SyncTranslatedCells, MaxCells) :
       InitOn(<<[original |-> JsonFile(Notebook(o, Python3)),
                 translated |-> JsonFile(Notebook(t, Python3))]>>)
  \/ InitOn(<<[original |-> JsonFile(Notebook(<<>>, Python3)), translated |-> MissingFile]>>)

\* Cells for the validator: code in two fragments and in one, with and
\* without outputs; markdown with text and blank.
ValidateOriginalCells ==
  { WithOutputs(Cell("code", <<X, Y>>), <<"o1">>),
    Cell("code", <<X>>),
    Cell("markdown", <<A>>),
    Cell("markdown", <<Blank>>) }

ValidateTranslatedCells ==
  { WithOutputs(Cell("code", <<XY>>), <<"o1">>),
    WithOutputs(Cell("code", <<X>>), <<>>),
    Cell("markdown", <<A>>),
    Cell("markdown", <<B>>) }

\* the metadata of the two notebooks of a pair: equal kernels, different
\* kernels, no kernelspec in the original, a metadata that is no mapping
ValidateMetadata ==
  { <<Python3, Python3>>, <<Python3, IR>>, <<DictMetadata(EmptyDict), Python3>>,
    <<ListMetadata, Python3>> }

\* one pair of notebooks (with or without a cells key), or one pair whose
\* translated file is missing or is not JSON
InitValidate ==
  \/ \E o \in SeqsUpTo(ValidateOriginalCells, MaxCells),
        t \in SeqsUpTo(ValidateTranslatedCells, MaxCells),
        m \in ValidateMetadata :
       InitOn(<<[original |-> JsonFile(Notebook(o, m[1])),
                 translated |-> JsonFile(Notebook(t, m[2]))]>>)
  \/ \E m \in ValidateMetadata, t \in SeqsUpTo(ValidateTranslatedCells, 1) :
       InitOn(<<[original |-> JsonFile([metadata |-> m[1]]),
                 translated |-> JsonFile(Notebook(t, m[2]))]>>)
  \/ \E f \in {MissingFile, GarbledFile} :
       InitOn(<<[original |-> JsonFile(Notebook(<<>>, Python3)), translated |-> f]>>)

\* The pairs of a batch: a good pair, a pair whose translated file is
\* missing, pairs with a file that is not JSON, and a pair whose original has
\* no cells key.
GoodOriginal == Notebook(<<WithCount(WithOutputs(Cell("code", <<X>>), <<"o1">>), 1),
                           Cell("markdown", <<A>>)>>, Python3)
GoodTranslated == Notebook(<<Cell("code", <<X>>), Cell("markdown", <<B>>)>>, Python3)

BatchPairs ==
  { [original |-> JsonFile(GoodOriginal), translated |-> JsonFile(GoodTranslated)],
    [original |-> JsonFile(GoodOriginal), translated |-> MissingFile],
    [original |-> JsonFile(GoodOriginal), translated |-> GarbledFile],
    [original |-> GarbledFile, translated |-> JsonFile(GoodTranslated)],
    [original |-> JsonFile([metadata |-> Python3]), translated |-> JsonFile(GoodTranslated)] }

InitBatch == \E d \in SeqsUpTo(BatchPairs, MaxPairs) : InitOn(d)

\* validate_translation.py run alone
NextValidate ==
  \/ ValidateMainStart
  \/ ValidateMainSkip
  \/ ValidateMainLoad
  \/ RunCheck
  \/ ValidateMainReport
  \/ ValidateMainSummary

SpecSync == InitSync /\ [][Next]_vars
SpecValidate == InitValidate /\ [][NextValidate]_vars
SpecBatch == InitBatch /\ [][Next]_vars

\* ------------------------------------------------------------ properties
\* sync_notebook_outputs returned for pair p: main printed its line
Synced(p) ==
  \E j \in 1..Len(smain.console) :
    smain.console[j].pair = p /\ smain.console[j].what = "synchronized"

\* the count sync_notebook_outputs returned for pair p
ReturnedCount(p) ==
  LET j == CHOOSE j \in 1..Len(smain.console) :
             smain.console[j].pair = p /\ smain.console[j].what = "synchronized"
  IN smain.console[j].n

IsCode(cell) == "cell_type" \in DOMAIN cell /\ cell["cell_type"] = "code"
HasOutputs(cell) == "outputs" \in DOMAIN cell /\ cell["outputs"] # <<>>

\* the aligned indices of pair p (as the files were before the call) where both cells are code
AlignedCode(p) ==
  LET o == dir0[p].original.nb["cells"]
      t == dir0[p].translated.nb["cells"]
  IN {i \in 1..Len(o) : i <= Len(t) /\ IsCode(o[i]) /\ IsCode(t[i])}

\* C1: after sync_notebook_outputs has run on a pair, at every aligned index
\* where both cells are code, the translated cell's outputs equal the
\* original's when the original has a non-empty outputs list, and are what
\* they were before the call (same value, or still absent) when the original's
\* outputs are absent or empty.
C1_OutputsCopiedOrKept ==
  \A p \in 1..Len(dir) : Synced(p) =>
    \A i \in AlignedCode(p) :
      LET o   == dir0[p].original.nb["cells"][i]
          t0  == dir0[p].translated.nb["cells"][i]
          t   == dir[p].translated.nb["cells"][i]
      IN IF HasOutputs(o)
         THEN "outputs" \in DOMAIN t /\ t["outputs"] = o["outputs"]
         ELSE /\ ("outputs" \in DOMAIN t) = ("outputs" \in DOMAIN t0)
              /\ "outputs" \in DOMAIN t0 => t["outputs"] = t0["outputs"]

\* a pair after the call where one code cell received the original's outputs
\* in place of its own, and another kept its own because the original's list is empty
C1_Witness ==
  /\ Len(dir) = 1 /\ Synced(1)
  /\ \E i, j \in AlignedCode(1) :
       /\ HasOutputs(dir0[1].original.nb["cells"][i])
       /\ HasOutputs(dir0[1].translated.nb["cells"][i])
       /\ dir0[1].translated.nb["cells"][i]["outputs"] # dir0[1].original.nb["cells"][i]["outputs"]
       /\ dir[1].translated.nb["cells"][i]["outputs"] = dir0[1].original.nb["cells"][i]["outputs"]
       /\ "outputs" \in DOMAIN dir0[1].original.nb["cells"][j]
       /\ ~HasOutputs(dir0[1].original.nb["cells"][j])
       /\ HasOutputs(dir[1].translated.nb["cells"][j])

\* C2: the count sync_notebook_outputs returns is the number of aligned
\* indices where both cells are code and the original has a non-empty outputs
\* list; execution_count copies and cells past the shorter notebook add nothing.
C2_CountCorrect ==
  \A p \in 1..Len(dir) : Synced(p) =>
    ReturnedCount(p)
      = Cardinality({i \in AlignedCode(p) : HasOutputs(dir0[p].original.nb["cells"][i])})

\* a call that returned 1 after copying one cell's outputs and, at another
\* index, an execution_count without outputs
C2_Witness ==
  /\ Len(dir) = 1 /\ Synced(1)
  /\ ReturnedCount(1) = 1
  /\ \E i \in AlignedCode(1) :
       /\ ~HasOutputs(dir0[1].original.nb["cells"][i])
       /\ "execution_count" \in DOMAIN dir0[1].original.nb["cells"][i]
       /\ dir[1].translated.nb["cells"][i] # dir0[1].translated.nb["cells"][i]

\* C3: sync_notebook_outputs changes nothing but the outputs and
\* execution_count of translated cells at aligned indices where both cells
\* are code: the original file is as before, the translated notebook keeps
\* its other keys and its number of cells, every translated cell keeps its
\* other keys, and cells past the shorter notebook or at a position where a
\* side is not code are as before.  A pair that is skipped or fails is not written.
C3_Frame ==
  \A p \in 1..Len(dir) :
    /\ dir[p].original = dir0[p].original
    /\ ~Synced(p) => dir[p] = dir0[p]
    /\ Synced(p) =>
         LET nb0 == dir0[p].translated.nb
             nb  == dir[p].translated.nb
         IN /\ dir[p].translated.state = "json"
            /\ DOMAIN nb = DOMAIN nb0
            /\ \A key \in DOMAIN nb0 \ {"cells"} : nb[key] = nb0[key]
            /\ Len(nb["cells"]) = Len(nb0["cells"])
            /\ \A i \in 1..Len(nb0["cells"]) :
                 LET t0 == nb0["cells"][i]
                     t  == nb["cells"][i]
                 IN /\ \A key \in DOMAIN t0 \ {"outputs", "execution_count"} :
                         key \in DOMAIN t /\ t[key] = t0[key]
                    /\ DOMAIN t \subseteq DOMAIN t0 \cup {"outputs", "execution_count"}
                    /\ i \notin AlignedCode(p) => t = t0

\* a call that changed the translated file, on a pair with a translated cell
\* past the end of the original and a position where the original is code
\* with outputs and the translated cell is markdown
C3_Witness ==
  /\ Len(dir) = 1 /\ Synced(1)
  /\ dir[1].translated # dir0[1].translated
  /\ \E i \in 1..Len(dir0[1].translated.nb["cells"]) :
       \/ i > Len(dir0[1].original.nb["cells"])
       \/ /\ HasOutputs(dir0[1].original.nb["cells"][i])
          /\ ~IsCode(dir0[1].translated.nb["cells"][i])

\* the issues a check left in NotebookValidator.issues, in order
IssuesOf(name) == SelectSeq(issues, LAMBDA x : x.check = name)

\* the position of a check in the list of validations
CheckIndex(name) == CHOOSE j \in 1..Len(CheckNames) : CheckNames[j] = name

\* run_all_validations has returned for the validator's pair
ValidationsReturned == k = Len(CheckNames) + 1

\* a notebook with what makes a check raise put right: an empty cell list
\* where there is no cells key, an empty mapping where metadata is no mapping
Repaired(nb) ==
  LET withCells == IF "cells" \in DOMAIN nb THEN nb ELSE SetKey(nb, "cells", <<>>)
  IN IF "metadata" \in DOMAIN withCells /\ withCells["metadata"].type # "dict"
     THEN SetKey(withCells, "metadata", DictMetadata(EmptyDict))
     ELSE withCells

\* C4: run_all_validations runs the six checks in order and returns exactly
\* the six names; a check that raises is recorded False with one error issue,
\* nothing it raises leaves the loop, and every other check returns and
\* records what it does on the pair with the cause of the failure put right.
C4_ChecksIndependent ==
  /\ vmain.pc = "crashed" =>
       \/ dir[vmain.i].original.state # "json"
       \/ dir[vmain.i].translated.state # "json"
  /\ vmain.pc = "checks" =>
       /\ DOMAIN results = {CheckNames[j] : j \in 1..(k - 1)}
       /\ \A a, b \in 1..Len(issues) :
            a < b => CheckIndex(issues[a].check) <= CheckIndex(issues[b].check)
  /\ ValidationsReturned =>
       /\ DOMAIN results = {CheckNames[j] : j \in 1..Len(CheckNames)}
       /\ Cardinality(DOMAIN results) = 6
       /\ \A j \in 1..Len(CheckNames) :
            LET name  == CheckNames[j]
                call  == CallCheck(j, validator.original, validator.translated)
                fixed == CallCheck(j, Repaired(validator.original), Repaired(validator.translated))
            IN IF call.raised
               THEN /\ results[name] = "False"
                    /\ Len(IssuesOf(name)) = 1
                    /\ IssuesOf(name)[1].level = "exception"
               ELSE /\ ~fixed.raised
                    /\ results[name] = fixed.ret
                    /\ IssuesOf(name) = fixed.issues

\* a run where the Metadata check alone raised, while the cell-count check
\* failed with its own issue and the cell-type check passed
C4_Witness ==
  /\ ValidationsReturned
  /\ {j \in 1..Len(CheckNames) :
        CallCheck(j, validator.original, validator.translated).raised} = {6}
  /\ results["Metadata"] = "False"
  /\ results["Cell count"] = "False"
  /\ results["Cell types"] = "True"
  /\ Len(issues) = 2

\* no check raises on the validator's pair and none records an issue
CleanPair ==
  /\ \A j \in 1..Len(CheckNames) :
       ~CallCheck(j, validator.original, validator.translated).raised
  /\ \A j \in 1..Len(CheckNames) :
       CallCheck(j, validator.original, validator.translated).issues = <<>>

\* C5: on a pair where no check raises and none records an issue,
\* run_all_validations maps all six names, Metadata included, to True, and
\* main prints PASS for the pair.
C5_CleanPairPasses ==
  (ValidationsReturned /\ CleanPair) =>
    /\ \A n \in DOMAIN results : results[n] = "True"
    /\ \A j \in 1..Len(vmain.console) :
         (vmain.console[j].pair = vmain.i - 1 /\ vmain.console[j].what \in {"PASS", "ISSUES"})
           => vmain.console[j].what = "PASS"

\* the aligned indices of the validator's pair where both cells are of a kind
BothOfKind(kind) ==
  {i \in Zipped(validator.original, validator.translated) :
     /\ Get(validator.original["cells"][i], "cell_type", "None") = kind
     /\ Get(validator.translated["cells"][i], "cell_type", "None") = kind}

SourceText(cell) == Join(Get(cell, "source", <<>>))

\* C6: validate_code_cells returns False exactly when, at some aligned index
\* where both cells are code, the joined sources differ; a position where
\* only one side is code never fails it.
C6_CodeIdentity ==
  (vmain.pc = "checks" /\ k > 3 /\ ~NoCells(validator.original, validator.translated)) =>
    ( results["Code cells"] = "False"
      <=> \E i \in BothOfKind("code") :
            SourceText(validator.original["cells"][i])
              # SourceText(validator.translated["cells"][i]) )

\* C7: validate_outputs_present returns False exactly when, at some aligned
\* index where both cells are code, the original has outputs and the
\* translated cell has none, and it records exactly those indices.
C7_OutputsPresence ==
  (vmain.pc = "checks" /\ k > 5 /\ ~NoCells(validator.original, validator.translated)) =>
    LET missing == {i \in BothOfKind("code") :
                      /\ Len(Get(validator.original["cells"][i], "outputs", <<>>)) > 0
                      /\ Len(Get(validator.translated["cells"][i], "outputs", <<>>)) = 0}
    IN /\ results["Outputs present"] = "False" <=> missing # {}
       /\ \A x \in 1..Len(IssuesOf("Outputs present")) :
            {IssuesOf("Outputs present")[x].nums[2 * y - 1] + 1 :
               y \in 1..(Len(IssuesOf("Outputs present")[x].nums) \div 2)} = missing

\* C8: validate_markdown_translated returns False, with one warning, exactly
\* when there is an aligned position where both cells are markdown and the
\* original is not blank, and every such position has the same text on both
\* sides; blank markdown cells do not affect the outcome.
C8_MarkdownCoverage ==
  (vmain.pc = "checks" /\ k > 4 /\ ~NoCells(validator.original, validator.translated)) =>
    LET nonblank == {i \in BothOfKind("markdown") :
                       ~IsBlank(SourceText(validator.original["cells"][i]))}
        degenerate == /\ nonblank # {}
                      /\ \A i \in nonblank :
                           SourceText(validator.original["cells"][i])
                             = SourceText(validator.translated["cells"][i])
    IN /\ results["Markdown translation"] = "False" <=> degenerate
       /\ Len(IssuesOf("Markdown translation")) = (IF degenerate THEN 1 ELSE 0)

\* C9: in both mains an exception raised while loading or processing one
\* pair is reported for that pair and the batch goes on: a main that has
\* stopped has gone through every pair and printed its summary.
C9_BatchContinues ==
  /\ smain.pc \in {"idle", "loop", "done"}
  /\ vmain.pc \in {"idle", "loop", "checks", "done"}
  /\ smain.pc = "done" =>
       /\ smain.i = Len(dir) + 1
       /\ smain.console[Len(smain.console)].what = "summary"
  /\ vmain.pc = "done" =>
       /\ vmain.i = Len(dir) + 1
       /\ vmain.console[Len(vmain.console)].what = "summary"

\* C10: when the validator runs on a pair after sync_notebook_outputs has
\* completed on it, validate_outputs_present returns True and records nothing.
C10_SyncEstablishesOutputs ==
  \A p \in 1..Len(dir) :
    ( /\ Synced(p)
      /\ vmain.pc = "checks" /\ vmain.i = p /\ k > 5
      /\ validator = [original |-> dir[p].original.nb, translated |-> dir[p].translated.nb] )
    => /\ results["Outputs present"] = "True"
       /\ IssuesOf("Outputs present") = <<>>
====
